---- MODULE Spec2Model ----
(***************************************************************************)
(* Model of the supa-crawl crawl-and-store workflows                       *)
(* (src/src/crawlers/async_crawler.py) and of the storage handler          *)
(* (src/src/storage/supabase_handler.py).                                  *)
(*                                                                         *)
(* The crawling engine, the LLM extractor and the hosted table are         *)
(* external: a crawl yields, for each requested URL, one outcome chosen    *)
(* nondeterministically; a storage call succeeds or fails                  *)
(* nondeterministically; the constraint the hosted table puts on the url   *)
(* column is unknown to the program and is fixed the first time a write    *)
(* meets an existing url.                                                  *)
(*                                                                         *)
(* Every print of the code that disposes of an outcome or of a candidate   *)
(* is an event of `log`; every call made on the storage client is an       *)
(* entry of `calls`.                                                       *)
(***************************************************************************)
EXTENDS Integers, Sequences, FiniteSets, TLC

\* ------------------------------------------------------------------ bounds
MaxUrls == 2
MaxItems == 2
MaxCmds == 2

\* ------------------------------------------------------------------ values
UrlA == "https://example.com"
UrlB == "https://httpbin.org/html"
Urls == {UrlA, UrlB}

\* A key that a mapping does not have, and JSON null (Python None).
Missing == "<missing>"
JNull == "<null>"

NoTitle == "No title extracted"
NoSummary == "No summary extracted"

\* Markdown is kept as the lengths of its paragraphs (split on blank lines),
\* each already stripped; the empty string is <<>>.
EmptyMd == <<>>
PageMd == <<14, 120>>

RECURSIVE SumLen(_)
SumLen(md) == IF md = <<>> THEN 0 ELSE Head(md) + SumLen(Tail(md))

\* len(markdown_content): the paragraphs and the "\n\n" between them.
MdLen(md) == IF md = <<>> THEN 0 ELSE SumLen(md) + 2 * (Len(md) - 1)

\* A stored content column: paragraph `para` of the page (0: the whole page),
\* cut to `chars` characters, followed by "..." when `ellipsis`.
NoContent == [para |-> -1, chars |-> 0, ellipsis |-> FALSE]

ExtractFirstParagraph(md) ==
    IF md = EmptyMd
    THEN [para |-> 0, chars |-> 0, ellipsis |-> FALSE]
    ELSE LET big == {k \in 1..Len(md) : md[k] > 50}
         IN IF big /= {}
            THEN LET k == CHOOSE j \in big : \A m \in big : j <= m
                 IN [para |-> k,
                     chars |-> IF md[k] > 500 THEN 500 ELSE md[k],
                     ellipsis |-> md[k] > 500]
            ELSE [para |-> 0,
                  chars |-> IF MdLen(md) > 500 THEN 500 ELSE MdLen(md),
                  ellipsis |-> MdLen(md) > 500]

\* ------------------------------------------------------------------ payloads
\* A mapping the extractor returned, by the keys the page workflow reads
\* (PageSummary: title, summary) and one key outside the schema.
EmptyPageDict == [title |-> Missing, summary |-> Missing, extra |-> Missing]
ValidPageDict == [title |-> "Example", summary |-> "A test page.", extra |-> Missing]

PageDicts ==
    { ValidPageDict,
      [ValidPageDict EXCEPT !.title = Missing],
      [ValidPageDict EXCEPT !.summary = Missing],
      [ValidPageDict EXCEPT !.title = JNull],
      EmptyPageDict }

\* The same for the prediction-market workflow: PredictionMarketBet's four
\* required fields, two of its optional ones (a str and a float) and one key
\* outside the schema.
EmptyMarketDict ==
    [website_name |-> Missing, bet_title |-> Missing, odds |-> Missing,
     summary |-> Missing, market_category |-> Missing,
     probability_percentage |-> Missing, extra |-> Missing]
ValidMarketDict ==
    [EmptyMarketDict EXCEPT !.website_name = "Polymarket",
                            !.bet_title = "Will it rain?",
                            !.odds = "62%",
                            !.summary = "Rain market."]

MarketDicts ==
    { ValidMarketDict,
      [ValidMarketDict EXCEPT !.website_name = Missing],
      [ValidMarketDict EXCEPT !.bet_title = Missing],
      [ValidMarketDict EXCEPT !.odds = Missing],
      [ValidMarketDict EXCEPT !.summary = Missing],
      [ValidMarketDict EXCEPT !.bet_title = JNull],
      EmptyMarketDict }

\* dict.get(key, default)
DictGet(d, k, default) == IF d[k] = Missing THEN default ELSE d[k]

\* bool(d) of a mapping: it has at least one key.
DictTruthy(d) == \E k \in DOMAIN d : d[k] /= Missing

\* A JSON value inside a list, or to which a single payload is bound: a
\* mapping, or something that is not a mapping (a string).
Mapping(d) == [isDict |-> TRUE, d |-> d]
NotMapping(e) == [isDict |-> FALSE, d |-> e]

\* json.loads' result. kind: "null", "str", "dict", "list" (a number or a
\* boolean takes the branches of the code that a string takes). `items` of
\* a list are its elements; of any other payload, the payload itself as the one
\* value the code may bind to a candidate.
NullPayload(e) == [kind |-> "null", items |-> <<NotMapping(e)>>]
StrPayload(e) == [kind |-> "str", items |-> <<NotMapping(e)>>]
DictPayload(d) == [kind |-> "dict", items |-> <<Mapping(d)>>]
ListPayload(s) == [kind |-> "list", items |-> s]

SeqsUpTo(S, n) == UNION { [1..m -> S] : m \in 0..n }

\* List payloads: up to MaxItems mappings, each valid or lacking one required
\* field, or up to MaxItems bare strings.
PageListElems ==
    { Mapping(ValidPageDict), Mapping([ValidPageDict EXCEPT !.title = Missing]) }
MarketListElems ==
    { Mapping(ValidMarketDict), Mapping([ValidMarketDict EXCEPT !.odds = Missing]) }

Lists(elems, e) ==
    SeqsUpTo(elems, MaxItems) \cup SeqsUpTo({NotMapping(e)}, MaxItems)

PagePayloads ==
    {NullPayload(EmptyPageDict), StrPayload(EmptyPageDict)}
    \cup {DictPayload(d) : d \in PageDicts}
    \cup {ListPayload(s) : s \in Lists(PageListElems, EmptyPageDict)}

MarketPayloads ==
    {NullPayload(EmptyMarketDict), StrPayload(EmptyMarketDict)}
    \cup {DictPayload(d) : d \in MarketDicts}
    \cup {ListPayload(s) : s \in Lists(MarketListElems, EmptyMarketDict)}

\* bool(payload)
Truthy(p) ==
    CASE p.kind = "null" -> FALSE
      [] p.kind = "str" -> TRUE
      [] p.kind = "dict" -> DictTruthy(p.items[1].d)
      [] p.kind = "list" -> Len(p.items) > 0

\* ------------------------------------------------------------------ crawl outcomes
\* result.extracted_content: None/empty, text that is not JSON, or JSON text.
NoExtract(e) == [state |-> "none", data |-> NullPayload(e)]
BadJson(e) == [state |-> "badjson", data |-> NullPayload(e)]
Json(p) == [state |-> "json", data |-> p]

Errors == {"timeout after 30s"}

\* One crawl4ai result for `url`: a success with any extracted content, or a
\* failure that carries an error message and possibly still a payload.
Outcomes(url, payloads, e, valid) ==
    { [url |-> url, success |-> TRUE, markdown |-> PageMd, extracted |-> x,
       error_message |-> ""] :
        x \in {NoExtract(e), BadJson(e)} \cup {Json(p) : p \in payloads} }
    \cup
    { [url |-> url, success |-> FALSE, markdown |-> EmptyMd, extracted |-> x,
       error_message |-> m] :
        x \in {NoExtract(e), Json(DictPayload(valid))}, m \in Errors }

PageOutcomes(url) == Outcomes(url, PagePayloads, EmptyPageDict, ValidPageDict)

\* The results of a crawl under self.run_config, whose extraction_strategy is
\* None: nothing is extracted.
PlainOutcomes(url) ==
    {o \in PageOutcomes(url) : o.extracted = NoExtract(EmptyPageDict)}
MarketOutcomes(url) == Outcomes(url, MarketPayloads, EmptyMarketDict, ValidMarketDict)

\* The url lists a workflow is called with. The code tells urls apart only by
\* equality, so a list starts with UrlA.
UrlLists == {s \in SeqsUpTo(Urls, MaxUrls) : s = <<>> \/ s[1] = UrlA}

\* One printed line that disposes of an outcome (idx = -1) or of candidate
\* idx of outcome src.
Event(kind, url, src, idx, reason) ==
    [kind |-> kind, url |-> url, src |-> src, idx |-> idx, reason |-> reason]

VARIABLES
    openai,        \* env_config.has_openai_config
    client,        \* storage_handler.is_available
    keyMode,       \* the hosted table's constraint on url, once observed
    table,         \* rows of the hosted table "Testing"
    pc,            \* "idle", "crawl", "store", "bulk", "done"
    workflow,      \* "none", "page", "market", "bulk", "summary"
    urls,          \* the argument of the running call
    fetched,       \* the crawl4ai results of the run, one per url
    results,       \* the list the crawl method returned
    i,             \* position of the store loop in results
    stored_count,
    ret,           \* "pending", "True", "False"; of store_crawl_results,
                   \* "returned" (stored_count) or the exception it raised;
                   \* of store_page_summary, "data" or "None"
    log,           \* events printed so far
    calls,         \* calls made on the storage client so far
    bets,          \* the PredictionMarketBet objects constructed so far
    pages,         \* rows of the hosted table "pages"
    chat,          \* the terminal tool: its last command and what it did
    repl,          \* run() of the terminal tool: "off", "loop" or "ended", and why
    runner         \* run_tests.py: its arguments, the groups run, its exit code

vars == <<openai, client, keyMode, table, pc, workflow, urls, fetched, results, i,
          stored_count, ret, log, calls, bets, pages, chat, repl, runner>>

\* ------------------------------------------------------------------ storage
\* The constraint of the hosted table on url, which the program cannot see:
\*   "pk_id"      id is the primary key, url is unconstrained
\*   "unique_url" id is the primary key, url carries a UNIQUE constraint
\*   "pk_url"     url is the primary key
KeyModes == {"pk_id", "unique_url", "pk_url"}

NewRow(tbl, data) ==
    [id |-> Len(tbl) + 1, url |-> data.url, title |-> data.title,
     summary |-> data.summary, content |-> data.content]

\* The row after an update of the columns `data` carries.
Merged(row, data) ==
    [row EXCEPT !.title = data.title, !.summary = data.summary,
                !.content = IF data.content = NoContent THEN @ ELSE data.content]

\* client.table("Testing").upsert(data).execute() with no on_conflict and no
\* id in data: the conflict target is the primary key. ok is whether the
\* call returned rows; a call that raises leaves the table alone.
UpsertOutcomes(tbl, km, data) ==
    LET hit == {j \in 1..Len(tbl) : tbl[j].url = data.url}
        raised == [tbl |-> tbl, km |-> km, ok |-> FALSE]
        inserted(m) == [tbl |-> Append(tbl, NewRow(tbl, data)), km |-> m, ok |-> TRUE]
        updated(m) ==
            [tbl |-> [j \in 1..Len(tbl) |->
                        IF j \in hit THEN Merged(tbl[j], data) ELSE tbl[j]],
             km |-> m, ok |-> TRUE]
        onConflict(m) ==
            CASE m = "pk_id" -> inserted(m)
              [] m = "unique_url" -> [raised EXCEPT !.km = m]
              [] m = "pk_url" -> updated(m)
    IN  {raised} \cup
        IF hit = {}
        THEN {inserted(km)}
        ELSE {onConflict(m) : m \in IF km = "unknown" THEN KeyModes ELSE {km}}

\* store_page_summary writing the position of the candidate into the key.
StorePageSummary_KeyIdx(tbl, km, cl, url, title, summary, raw_markdown) ==
    IF ~cl
    THEN {[tbl |-> tbl, km |-> km, resp |-> FALSE, made |-> <<>>]}
    ELSE LET data == [url |-> url \o "#0", title |-> title, summary |-> summary,
                      content |-> IF raw_markdown /= EmptyMd
                                  THEN ExtractFirstParagraph(raw_markdown)
                                  ELSE NoContent]
         IN { [tbl |-> o.tbl, km |-> o.km, resp |-> o.ok,
               made |-> <<[op |-> "upsert", table |-> "Testing", data |-> data,
                           ok |-> o.ok]>>] :
              o \in UpsertOutcomes(tbl, km, data) }

\* store_page_summary making a fresh key for every write.
StorePageSummary_KeyRow(tbl, km, cl, url, title, summary, raw_markdown) ==
    IF ~cl
    THEN {[tbl |-> tbl, km |-> km, resp |-> FALSE, made |-> <<>>]}
    ELSE LET data == [url |-> url \o "#" \o ToString(Len(tbl)), title |-> title,
                      summary |-> summary,
                      content |-> IF raw_markdown /= EmptyMd
                                  THEN ExtractFirstParagraph(raw_markdown)
                                  ELSE NoContent]
         IN { [tbl |-> o.tbl, km |-> o.km, resp |-> o.ok,
               made |-> <<[op |-> "upsert", table |-> "Testing", data |-> data,
                           ok |-> o.ok]>>] :
              o \in UpsertOutcomes(tbl, km, data) }

\* SupabaseHandler.store_page_summary: the possible results. resp is the
\* truth value of what it returns, made the calls it made on the client.
StorePageSummary(tbl, km, cl, url, title, summary, raw_markdown) ==
    IF ~cl
    THEN {[tbl |-> tbl, km |-> km, resp |-> FALSE, made |-> <<>>]}
    ELSE LET data == [url |-> url, title |-> title, summary |-> summary,
                      content |-> IF raw_markdown /= EmptyMd
                                  THEN ExtractFirstParagraph(raw_markdown)
                                  ELSE NoContent]
         IN { [tbl |-> o.tbl, km |-> o.km, resp |-> o.ok,
               made |-> <<[op |-> "upsert", table |-> "Testing", data |-> data,
                           ok |-> o.ok]>>] :
              o \in UpsertOutcomes(tbl, km, data) }

\* ------------------------------------------------------------------ crawl methods
\* The dict crawl_with_llm_analysis appends for outcome k; src is k.
LlmResult(o, k) ==
    [url |-> o.url, src |-> k, shape |-> "llm", raw_markdown |-> o.markdown,
     analysis |-> o.extracted.data]

\* The dict crawl_with_memory_adaptive_dispatcher appends: it has neither a
\* raw_markdown nor an analysis key (shape "basic").
BasicResult(o, k) ==
    [url |-> o.url, src |-> k, shape |-> "basic", raw_markdown |-> o.markdown,
     analysis |-> o.extracted.data]

\* crawl_with_memory_adaptive_dispatcher's loop over outs[1..k].
RECURSIVE MemoryAdaptiveLoop(_, _)
MemoryAdaptiveLoop(outs, k) ==
    IF k = 0
    THEN [res |-> <<>>, log |-> <<>>]
    ELSE LET prev == MemoryAdaptiveLoop(outs, k - 1)
             o == outs[k]
         IN IF o.success
            THEN [prev EXCEPT !.res = Append(@, BasicResult(o, k))]
            ELSE [prev EXCEPT !.log =
                    Append(@, Event("failed_crawl", o.url, k, -1, o.error_message))]

\* The test of the crawl loops without `result.success and`.
Analyzable_NoSuccess(o) == o.extracted.state /= "none"

\* The branch a crawl loop takes for one crawl4ai result.
Analyzable(o) == o.success /\ o.extracted.state /= "none"

\* crawl_with_llm_analysis putting each result before those it has.
RECURSIVE LlmAnalysisLoop_Prepend(_, _)
LlmAnalysisLoop_Prepend(outs, k) ==
    IF k = 0
    THEN [res |-> <<>>, log |-> <<>>]
    ELSE LET prev == LlmAnalysisLoop_Prepend(outs, k - 1)
             o == outs[k]
         IN IF Analyzable(o)
            THEN IF o.extracted.state = "json"
                 THEN [prev EXCEPT !.res = <<LlmResult(o, k)>> \o @]
                 ELSE [res |-> <<LlmResult(o, k)>> \o prev.res,
                       log |-> Append(prev.log,
                                 Event("parse_error", o.url, k, -1, "JSONDecodeError"))]
            ELSE [prev EXCEPT !.log =
                    Append(@, Event("failed_analyze", o.url, k, -1, o.error_message))]

\* crawl_with_llm_analysis printing 'Unknown error' for a result it drops.
RECURSIVE LlmAnalysisLoop_UnknownError(_, _)
LlmAnalysisLoop_UnknownError(outs, k) ==
    IF k = 0
    THEN [res |-> <<>>, log |-> <<>>]
    ELSE LET prev == LlmAnalysisLoop_UnknownError(outs, k - 1)
             o == outs[k]
         IN IF Analyzable(o)
            THEN IF o.extracted.state = "json"
                 THEN [prev EXCEPT !.res = Append(@, LlmResult(o, k))]
                 ELSE [res |-> Append(prev.res, LlmResult(o, k)),
                       log |-> Append(prev.log,
                                 Event("parse_error", o.url, k, -1, "JSONDecodeError"))]
            ELSE [prev EXCEPT !.log =
                    Append(@, Event("failed_analyze", o.url, k, -1, "Unknown error"))]

\* crawl_with_llm_analysis's loop over outs[1..k].
RECURSIVE LlmAnalysisLoop(_, _)
LlmAnalysisLoop(outs, k) ==
    IF k = 0
    THEN [res |-> <<>>, log |-> <<>>]
    ELSE LET prev == LlmAnalysisLoop(outs, k - 1)
             o == outs[k]
         IN IF Analyzable(o)
            THEN IF o.extracted.state = "json"
                 THEN [prev EXCEPT !.res = Append(@, LlmResult(o, k))]
                 ELSE [res |-> Append(prev.res, LlmResult(o, k)),
                       log |-> Append(prev.log,
                                 Event("parse_error", o.url, k, -1, "JSONDecodeError"))]
            ELSE [prev EXCEPT !.log =
                    Append(@, Event("failed_analyze", o.url, k, -1, o.error_message))]

\* crawl_with_llm_analysis with no test of the OpenAI key.
CrawlWithLlmAnalysis_NoFallback(oa, outs) == LlmAnalysisLoop(outs, Len(outs))

CrawlWithLlmAnalysis(oa, outs) ==
    IF ~oa
    THEN MemoryAdaptiveLoop(outs, Len(outs))
    ELSE LlmAnalysisLoop(outs, Len(outs))

\* result.get of a key no result carries.
GetAnalysis_Absent(r) == ListPayload(<<>>)

\* result.get('raw_markdown', '') and result.get('analysis', [])
GetRawMarkdown(r) == IF r.shape = "llm" THEN r.raw_markdown ELSE EmptyMd
GetAnalysis(r) == IF r.shape = "llm" THEN r.analysis ELSE ListPayload(<<>>)

\* Taking the last element of a list instead of the first.
PickAnalysis_Last(analysis_list) ==
    IF analysis_list.kind = "list" /\ Len(analysis_list.items) > 0
    THEN analysis_list.items[Len(analysis_list.items)]
    ELSE analysis_list.items[1]

\* "Handle both list and direct dict formats": the value bound to `analysis`.
PickAnalysis(analysis_list) ==
    IF analysis_list.kind = "list" /\ Len(analysis_list.items) > 0
    THEN analysis_list.items[1]
    ELSE analysis_list.items[1]

\* analysis.get('title') or 'No title extracted': an empty title replaced.
PageTitle_EmptyDefault(analysis) ==
    IF analysis.isDict /\ DictGet(analysis.d, "title", NoTitle) /= ""
    THEN DictGet(analysis.d, "title", NoTitle)
    ELSE NoTitle

\* analysis.get('title') with no default.
PageTitle_NoDefault(analysis) ==
    IF analysis.isDict THEN DictGet(analysis.d, "title", JNull) ELSE NoTitle

\* The summary with the padding the page workflow never removes removed.
PageSummaryOf_Strip(analysis) ==
    IF analysis.isDict
    THEN IF DictGet(analysis.d, "summary", NoSummary) = " A test page. "
         THEN "A test page."
         ELSE DictGet(analysis.d, "summary", NoSummary)
    ELSE NoSummary

\* An empty summary for an analysis that is not a dict.
PageSummaryOf_Empty(analysis) ==
    IF analysis.isDict THEN DictGet(analysis.d, "summary", NoSummary) ELSE ""

PageTitle(analysis) ==
    IF analysis.isDict THEN DictGet(analysis.d, "title", NoTitle) ELSE NoTitle
PageSummaryOf(analysis) ==
    IF analysis.isDict THEN DictGet(analysis.d, "summary", NoSummary) ELSE NoSummary

\* ------------------------------------------------------------------ page workflow
\* The terminal tool before its first command. n counts the commands given
\* to process_command; parts, ret, out, rows, count and made are the tokens of
\* the last one, what process_command returned, what it printed, the rows and
\* the count it printed and the calls it made on its client; at is the number of storage
\* calls the crawler had made when the command ran.
ChatIdle ==
    [n |-> 0, parts |-> <<>>, ret |-> TRUE, out |-> "", rows |-> <<>>, count |-> -1,
     made |-> <<>>, at |-> 0]

\* run() before it is called.
ReplOff == [state |-> "off", why |-> "", test |-> "none", failed |-> 0]

\* run_tests.py before it is started.
RunnerIdle ==
    [pc |-> "idle", args |-> {}, ran |-> <<>>, errors |-> <<>>, test_paths |-> {},
     markers |-> {}, success |-> TRUE, exit |-> -1]

Init ==
    /\ openai \in BOOLEAN
    /\ client \in BOOLEAN
    /\ keyMode = "unknown"
    /\ table = <<>>
    /\ pc = "idle"
    /\ workflow = "none"
    /\ urls = <<>>
    /\ fetched = <<>>
    /\ results = <<>>
    /\ i = 0
    /\ stored_count = 0
    /\ ret = "pending"
    /\ log = <<>>
    /\ calls = <<>>
    /\ bets = <<>>
    /\ pages = <<>>
    /\ chat = ChatIdle
    /\ repl = ReplOff
    /\ runner = RunnerIdle

\* crawl_and_store_in_supabase(us) without the test of the storage client.
CallPage_NoCheck(us) ==
    /\ urls' = us
    /\ workflow' = "page"
    /\ pc' = "crawl" /\ ret' = ret

\* crawl_and_store_in_supabase(us), up to the crawl.
CallPage(us) ==
    /\ urls' = us
    /\ workflow' = "page"
    /\ IF ~client
       THEN pc' = "done" /\ ret' = "False"
       ELSE pc' = "crawl" /\ ret' = ret

StartPage ==
    /\ pc = "idle"
    /\ \E us \in UrlLists : CallPage(us)
    /\ UNCHANGED <<openai, client, keyMode, table, fetched, results, i, stored_count,
                   log, calls,
                   bets, pages, chat, repl, runner>>

\* results = await self.crawl_with_llm_analysis(urls); if not results: return False
CrawledPage(outs) ==
    LET c == CrawlWithLlmAnalysis(openai, outs)
    IN /\ fetched' = outs
       /\ results' = c.res
       /\ log' = log \o c.log
       /\ IF c.res = <<>>
          THEN pc' = "done" /\ ret' = "False" /\ i' = i
          ELSE pc' = "store" /\ ret' = ret /\ i' = 1

CrawlPage ==
    /\ pc = "crawl"
    /\ workflow = "page"
    /\ \E outs \in [1..Len(urls) ->
                     UNION {IF openai THEN PageOutcomes(u) ELSE PlainOutcomes(u) :
                            u \in Urls}] :
         /\ \A k \in 1..Len(urls) : outs[k].url = urls[k]
         /\ CrawledPage(outs)
    /\ UNCHANGED <<openai, client, keyMode, table, workflow, urls, stored_count, calls,
                   bets, pages, chat, repl, runner>>

\* One iteration of the store loop of crawl_and_store_in_supabase.
StorePage ==
    /\ pc = "store"
    /\ workflow = "page"
    /\ i <= Len(results)
    /\ LET result == results[i]
           url == result.url
           raw_markdown == GetRawMarkdown(result)
           analysis_list == GetAnalysis(result)
           analysis == PickAnalysis(analysis_list)
       IN IF url = ""
          THEN /\ log' = Append(log, Event("no_url", url, result.src, -1, "no URL"))
               /\ UNCHANGED <<table, keyMode, calls, stored_count>>
          ELSE IF Truthy(analysis_list)
          THEN \E o \in StorePageSummary(table, keyMode, client, url,
                                          PageTitle(analysis), PageSummaryOf(analysis),
                                          raw_markdown) :
                 /\ table' = o.tbl
                 /\ keyMode' = o.km
                 /\ calls' = calls \o
                       [k \in 1..Len(o.made) |->
                          [op |-> o.made[k].op, table |-> o.made[k].table,
                           data |-> o.made[k].data, ok |-> o.made[k].ok,
                           src |-> result.src, idx |-> 0]]
                 /\ IF o.resp
                    THEN /\ stored_count' = stored_count + 1
                         /\ log' = Append(log, Event("stored", url, result.src, 0,
                                                      "Stored with LLM analysis"))
                    ELSE /\ stored_count' = stored_count
                         /\ log' = Append(log, Event("store_failed", url, result.src, 0,
                                                      "Failed to store"))
          ELSE /\ log' = Append(log, Event("no_analysis", url, result.src, -1,
                                            "No LLM analysis"))
               /\ UNCHANGED <<table, keyMode, calls, stored_count>>
    /\ i' = i + 1
    /\ UNCHANGED <<openai, client, pc, workflow, urls, fetched, results, ret,
                   bets, pages, chat, repl, runner>>

\* return len(results) > 0
FinishPage_Processed ==
    /\ pc = "store"
    /\ workflow = "page"
    /\ i > Len(results)
    /\ pc' = "done"
    /\ ret' = IF Len(results) > 0 THEN "True" ELSE "False"
    /\ UNCHANGED <<openai, client, keyMode, table, workflow, urls, fetched, results, i,
                   stored_count, log, calls,
                   bets, pages, chat, repl, runner>>

\* return stored_count > 0
FinishPage ==
    /\ pc = "store"
    /\ workflow = "page"
    /\ i > Len(results)
    /\ pc' = "done"
    /\ ret' = IF stored_count > 0 THEN "True" ELSE "False"
    /\ UNCHANGED <<openai, client, keyMode, table, workflow, urls, fetched, results, i,
                   stored_count, log, calls,
                   bets, pages, chat, repl, runner>>

\* ------------------------------------------------------------------ market workflow
\* The dict crawl_prediction_markets_with_llm appends for outcome k.
MarketResult(o, k) ==
    [url |-> o.url, src |-> k, shape |-> "llm", raw_markdown |-> o.markdown,
     prediction_data |-> o.extracted.data]

\* crawl_prediction_markets_with_llm's loop over outs[1..k].
RECURSIVE MarketAnalysisLoop(_, _)
MarketAnalysisLoop(outs, k) ==
    IF k = 0
    THEN [res |-> <<>>, log |-> <<>>]
    ELSE LET prev == MarketAnalysisLoop(outs, k - 1)
             o == outs[k]
         IN IF Analyzable(o)
            THEN IF o.extracted.state = "json"
                 THEN [prev EXCEPT !.res = Append(@, MarketResult(o, k))]
                 ELSE [res |-> Append(prev.res, MarketResult(o, k)),
                       log |-> Append(prev.log,
                                 Event("parse_error", o.url, k, -1, "JSONDecodeError"))]
            ELSE [prev EXCEPT !.log =
                    Append(@, Event("failed_extract", o.url, k, -1, o.error_message))]

\* Storing only the first market of an array response.
MarketsToStore_First(raw) ==
    IF Truthy(raw)
    THEN IF raw.kind = "list" THEN <<raw.items[1]>>
         ELSE IF raw.kind = "dict" THEN <<raw.items[1]>>
         ELSE <<>>
    ELSE <<>>

\* "Handle both single object and array responses from LLM"
MarketsToStore(raw) ==
    IF Truthy(raw)
    THEN IF raw.kind = "list" THEN raw.items
         ELSE IF raw.kind = "dict" THEN <<raw.items[1]>>
         ELSE <<>>
    ELSE <<>>

CleanData(d) ==
    [website_name |-> DictGet(d, "website_name", ""),
     bet_title |-> DictGet(d, "bet_title", ""),
     odds |-> DictGet(d, "odds", ""),
     summary |-> DictGet(d, "summary", "")]

\* PredictionMarketBet(**clean_data): the four fields are declared str.
Validates(clean) == \A k \in DOMAIN clean : clean[k] /= JNull

\* prediction_bet = PredictionMarketBet(**clean_data): the fields the call
\* passes, and the default None for every optional field it does not pass.
PredictionMarketBet(clean) ==
    [website_name |-> clean.website_name, bet_title |-> clean.bet_title,
     odds |-> clean.odds, summary |-> clean.summary,
     market_category |-> JNull, betting_options |-> JNull,
     probability_percentage |-> JNull, volume_info |-> JNull,
     closing_date |-> JNull]

\* The objects the loop over markets_to_store constructs for result src.
RECURSIVE BetsOf(_, _, _)
BetsOf(src, markets, k) ==
    IF k = 0
    THEN <<>>
    ELSE LET m == markets[k]
             prev == BetsOf(src, markets, k - 1)
         IN IF m.isDict /\ Validates(CleanData(m.d))
            THEN Append(prev, [src |-> src, idx |-> k - 1,
                               bet |-> PredictionMarketBet(CleanData(m.d))])
            ELSE prev

\* The loop body under a schema that forbids keys it does not declare.
StoreMarketItem_ForbidExtra(url, src, k, market_data) ==
    IF ~market_data.isDict
    THEN Event("validate_failed", url, src, k, "AttributeError: get")
    ELSE IF ~Validates(CleanData(market_data.d)) \/ market_data.d.extra /= Missing
    THEN Event("validate_failed", url, src, k, "ValidationError")
    ELSE Event("validate_failed", url, src, k,
               "AttributeError: store_prediction_market_data")

\* The body of the loop over markets_to_store for market k (0-based) of
\* result src: what it prints. SupabaseHandler defines no
\* store_prediction_market_data, so the call on a validated market raises
\* AttributeError inside the same try.
StoreMarketItem(url, src, k, market_data) ==
    IF ~market_data.isDict
    THEN Event("validate_failed", url, src, k, "AttributeError: get")
    ELSE IF ~Validates(CleanData(market_data.d))
    THEN Event("validate_failed", url, src, k, "ValidationError")
    ELSE Event("validate_failed", url, src, k,
               "AttributeError: store_prediction_market_data")

\* crawl_and_store_prediction_markets(us), up to the crawl.
CallMarket(us) ==
    /\ urls' = us
    /\ workflow' = "market"
    /\ IF ~client
       THEN pc' = "done" /\ ret' = "False"
       ELSE pc' = "crawl" /\ ret' = ret

StartMarket ==
    /\ pc = "idle"
    /\ \E us \in UrlLists : CallMarket(us)
    /\ UNCHANGED <<openai, client, keyMode, table, fetched, results, i, stored_count,
                   log, calls,
                   bets, pages, chat, repl, runner>>

\* results = await self.crawl_prediction_markets_with_llm(urls);
\* if not results: return False
CrawledMarket(outs) ==
    LET c == MarketAnalysisLoop(outs, Len(outs))
    IN /\ fetched' = outs
       /\ results' = c.res
       /\ log' = log \o c.log
       /\ IF c.res = <<>>
          THEN pc' = "done" /\ ret' = "False" /\ i' = i
          ELSE pc' = "store" /\ ret' = ret /\ i' = 1

CrawlMarket ==
    /\ pc = "crawl"
    /\ workflow = "market"
    /\ IF ~openai
       THEN /\ pc' = "done" /\ ret' = "False"
            /\ UNCHANGED <<fetched, results, log, i>>
       ELSE \E outs \in [1..Len(urls) -> UNION {MarketOutcomes(u) : u \in Urls}] :
              /\ \A k \in 1..Len(urls) : outs[k].url = urls[k]
              /\ CrawledMarket(outs)
    /\ UNCHANGED <<openai, client, keyMode, table, workflow, urls, stored_count, calls,
                   bets, pages, chat, repl, runner>>

\* One iteration of the store loop of crawl_and_store_prediction_markets.
StoreMarket ==
    /\ pc = "store"
    /\ workflow = "market"
    /\ i <= Len(results)
    /\ LET result == results[i]
           url == result.url
           markets_to_store == MarketsToStore(result.prediction_data)
       IN IF url = ""
          THEN /\ log' = Append(log, Event("no_url", url, result.src, -1, "no URL"))
               /\ bets' = bets
          ELSE /\ log' = log
                 \o [k \in 1..Len(markets_to_store) |->
                       StoreMarketItem(url, result.src, k - 1, markets_to_store[k])]
                 \o IF markets_to_store = <<>>
                    THEN <<Event("no_market_data", url, result.src, -1,
                                 "No prediction market data extracted")>>
                    ELSE <<>>
               /\ bets' = bets \o BetsOf(result.src, markets_to_store,
                                         Len(markets_to_store))
    /\ i' = i + 1
    /\ UNCHANGED <<openai, client, keyMode, table, pc, workflow, urls, fetched, results,
                   stored_count, ret, calls,
                   pages, chat, repl, runner>>

\* return stored_count > 0
FinishMarket ==
    /\ pc = "store"
    /\ workflow = "market"
    /\ i > Len(results)
    /\ pc' = "done"
    /\ ret' = IF stored_count > 0 THEN "True" ELSE "False"
    /\ UNCHANGED <<openai, client, keyMode, table, workflow, urls, fetched, results, i,
                   stored_count, log, calls,
                   bets, pages, chat, repl, runner>>

\* ------------------------------------------------------------------ terminal tool
\* The contents the table "pages" may have: the crawler never writes it (it
\* writes "Testing"); the database tests insert rows into it, the same url
\* more than once.
OldRow(id, url, title, summary) ==
    [id |-> id, url |-> url, title |-> title, summary |-> summary,
     content |-> NoContent]

PagesTables ==
    { <<>>,
      <<OldRow(1, UrlA, "Old title", "Old summary")>>,
      <<OldRow(1, UrlA, "Old title", "Old summary"), OldRow(2, UrlB, JNull, JNull)>>,
      <<OldRow(1, UrlB, "Example", "A test page."),
        OldRow(2, UrlB, "Example Two", "Another test page.")>> }

\* select("id, url, title, summary")
Columns(row) ==
    [id |-> row.id, url |-> row.url, title |-> row.title, summary |-> row.summary]

\* .order("id", desc=True): ids are given in insertion order.
RECURSIVE Reverse(_)
Reverse(sq) == IF sq = <<>> THEN <<>> ELSE Append(Reverse(Tail(sq)), Head(sq))

\* .limit(n)
Take(sq, n) == IF Len(sq) <= n THEN sq ELSE SubSeq(sq, 1, n)

\* ilike("%query%"): the pairs (value, query) of the strings of the model for
\* which value contains query, letter case ignored.
ILikePairs ==
    { <<"Example", "example">>, <<"Example Two", "example">>,
      <<"A test page.", "test">>, <<"Another test page.", "test">>,
      <<"Old title", "old">>, <<"Old summary", "old">> }
ILike(value, query) == <<value, query>> \in ILikePairs

\* A query helper that builds a delete where it should build a select.
Select_Delete(what, ok) == [op |-> "delete", table |-> "pages", what |-> what, ok |-> ok]

\* One call on the chatbot's client, and whether it returned or raised.
Select(what, ok) == [op |-> "select", table |-> "pages", what |-> what, ok |-> ok]

\* The query helpers: the value each returns when the request returns (ok) or
\* raises, which each catches.
LatestPagesQ(tbl, limit, ok) ==
    IF ok THEN Take(Reverse([k \in DOMAIN tbl |-> Columns(tbl[k])]), limit) ELSE <<>>

\* eq("url", url).limit(1) with no order: any one of the matching rows.
FindPageByUrl(tbl, url, ok) ==
    LET hit == {k \in DOMAIN tbl : tbl[k].url = url}
    IN IF ok /\ hit /= {} THEN {<<tbl[k]>> : k \in hit} ELSE {<<>>}

SearchPagesByTitle(tbl, q, ok) ==
    LET keep(r) == ILike(r.title, q)
        found == SelectSeq(tbl, keep)
    IN IF ok THEN Take(Reverse([k \in DOMAIN found |-> Columns(found[k])]), 10)
       ELSE <<>>

SearchPagesBySummary(tbl, q, ok) ==
    LET keep(r) == ILike(r.summary, q)
        found == SelectSeq(tbl, keep)
    IN IF ok THEN Take(Reverse([k \in DOMAIN found |-> Columns(found[k])]), 10)
       ELSE <<>>

\* count_total_pages returning the rows it knows of when the request raises.
CountTotalPages_Stale(tbl, ok) == Len(tbl)

CountTotalPages(tbl, ok) == IF ok THEN Len(tbl) ELSE 0

GetPagesWithSummaries(tbl, ok) ==
    LET keep(r) == r.title /= JNull /\ r.summary /= JNull
        found == SelectSeq(tbl, keep)
    IN IF ok THEN Take(Reverse([k \in DOMAIN found |-> Columns(found[k])]), 10)
       ELSE <<>>

GetPageContent(tbl, page_id, ok) ==
    LET hit == {k \in DOMAIN tbl : tbl[k].id = page_id}
    IN IF ok /\ hit /= {} THEN {<<tbl[k]>> : k \in hit} ELSE {<<>>}

\* A comparison of the token as it was typed.
Lower_Identity(w) == w

\* str.lower() of the first token, on the tokens of the model.
Lower(w) ==
    CASE w = "EXIT" -> "exit"
      [] w = "Find" -> "find"
      [] w = "LATEST" -> "latest"
      [] OTHER -> w

\* int(text): the number, or -1000 for ValueError.
ValueError == -1000
ParseInt(w) ==
    CASE w = "0" -> 0
      [] w = "1" -> 1
      [] w = "3" -> 3
      [] w = "50" -> 50
      [] w = "51" -> 51
      [] w = "99" -> 99
      [] w = "-2" -> -2
      [] OTHER -> ValueError

\* " ".join(parts[k:])
RECURSIVE Join(_)
Join(ws) ==
    IF Len(ws) = 1 THEN ws[1] ELSE ws[1] \o " " \o Join(Tail(ws))

\* What one command did: what process_command returned, the message it
\* printed, the rows and the count it printed, the calls it made.
Did(returned, out, rows, count, made) ==
    [ret |-> returned, out |-> out, rows |-> rows, count |-> count, made |-> made]

Said(out) == Did(TRUE, out, <<>>, -1, <<>>)

\* handle_latest_command without the cap at 50.
HandleLatest_NoCap(tbl, parts, ok) ==
    LET n == IF Len(parts) > 1 THEN ParseInt(parts[2]) ELSE 5
    IN IF n = ValueError THEN Said("Invalid number format")
       ELSE IF n <= 0 THEN Said("Limit must be a positive number")
       ELSE Did(TRUE, "pages", LatestPagesQ(tbl, n, ok), -1,
                <<Select([kind |-> "latest", limit |-> n], ok)>>)

\* handle_latest_command
HandleLatest(tbl, parts, ok) ==
    LET n == IF Len(parts) > 1 THEN ParseInt(parts[2]) ELSE 5
        limit == IF n > 50 THEN 50 ELSE n
    IN IF n = ValueError THEN Said("Invalid number format")
       ELSE IF n <= 0 THEN Said("Limit must be a positive number")
       ELSE Did(TRUE, "pages", LatestPagesQ(tbl, limit, ok), -1,
                <<Select([kind |-> "latest", limit |-> limit], ok)>>)

\* handle_find_command
HandleFind(tbl, parts, ok) ==
    IF Len(parts) < 2
    THEN {Said("Usage: find <url>")}
    ELSE LET url == Join(Tail(parts))
         IN { Did(TRUE, IF r = <<>> THEN "Page not found" ELSE "page", r, -1,
                  <<Select([kind |-> "find", url |-> url], ok)>>) :
              r \in FindPageByUrl(tbl, url, ok) }

\* handle_search_command
HandleSearch(tbl, parts, ok) ==
    IF Len(parts) < 3
    THEN Said("Usage: search [title|summary] <query>")
    ELSE LET search_type == Lower(parts[2])
             query == Join(Tail(Tail(parts)))
         IN IF search_type = "title"
            THEN Did(TRUE, "pages", SearchPagesByTitle(tbl, query, ok), -1,
                     <<Select([kind |-> "title", query |-> query], ok)>>)
            ELSE IF search_type = "summary"
            THEN Did(TRUE, "pages", SearchPagesBySummary(tbl, query, ok), -1,
                     <<Select([kind |-> "summary", query |-> query], ok)>>)
            ELSE Said("Search type must be 'title' or 'summary'")

\* handle_content_command
HandleContent(tbl, parts, ok) ==
    IF Len(parts) < 2
    THEN {Said("Usage: content <page_id>")}
    ELSE LET page_id == ParseInt(parts[2])
         IN IF page_id = ValueError
            THEN {Said("Invalid page ID")}
            ELSE { Did(TRUE, IF r = <<>> THEN "Page with ID not found" ELSE "page",
                       r, -1, <<Select([kind |-> "content", id |-> page_id], ok)>>) :
                   r \in GetPageContent(tbl, page_id, ok) }

\* process_command(command) on the tokens command.strip().split() gives: the
\* set of things it may do.
ProcessCommandOf(tbl, parts, ok) ==
    IF parts = <<>>
    THEN {Did(TRUE, "", <<>>, -1, <<>>)}
    ELSE LET main_command == Lower(parts[1])
         IN CASE main_command \in {"quit", "exit"} ->
                   {Did(FALSE, "Goodbye!", <<>>, -1, <<>>)}
              [] main_command = "help" -> {Said("help")}
              [] main_command = "test" ->
                   {Did(TRUE, IF ok THEN "Database connection verified"
                              ELSE "Database connection failed",
                        <<>>, -1, <<Select([kind |-> "test"], ok)>>)}
              [] main_command = "latest" -> {HandleLatest(tbl, parts, ok)}
              [] main_command = "find" -> HandleFind(tbl, parts, ok)
              [] main_command = "search" -> {HandleSearch(tbl, parts, ok)}
              [] main_command = "count" ->
                   {Did(TRUE, "Total pages in database", <<>>,
                        CountTotalPages(tbl, ok), <<Select([kind |-> "count"], ok)>>)}
              [] main_command = "summaries" ->
                   {Did(TRUE, "pages", GetPagesWithSummaries(tbl, ok), -1,
                        <<Select([kind |-> "summaries"], ok)>>)}
              [] main_command = "content" -> HandleContent(tbl, parts, ok)
              [] OTHER -> {Said("Unknown command")}

\* .execute() of the calls a command made, on the rows of "pages": a select
\* leaves them alone, a delete removes the rows its filter matches.
RECURSIVE Executed(_, _)
Executed(tbl, made) ==
    IF made = <<>>
    THEN tbl
    ELSE LET c == Head(made)
             keep(r) == CASE c.what.kind = "find" -> r.url /= c.what.url
                          [] c.what.kind = "content" -> r.id /= c.what.id
                          [] OTHER -> FALSE
         IN Executed(IF c.op = "delete" /\ c.ok THEN SelectSeq(tbl, keep) ELSE tbl,
                     Tail(made))

\* The commands typed, as the tokens left by strip() and split().
Commands ==
    { <<>>, <<"quit">>, <<"EXIT">>, <<"EXIT", "now">>, <<"quitter">>, <<"help">>,
      <<"test">>,
      <<"latest">>, <<"LATEST", "1">>, <<"latest", "0">>, <<"latest", "99">>,
      <<"latest", "abc">>, <<"latest", "50">>, <<"latest", "51">>, <<"latest", "-2">>,
      <<"find">>, <<"find", UrlA>>, <<"Find", UrlB>>,
      <<"search">>, <<"search", "title", "example">>, <<"search", "summary", "test">>,
      <<"search", "body", "old">>,
      <<"count">>, <<"summaries">>,
      <<"content">>, <<"content", "1">>, <<"content", "3">>, <<"content", "abc">>,
      <<"delete", UrlA>>, <<"drop">> }

\* process_command(parts) did d, its request having returned (ok) or raised.
Processed(parts, ok, d) ==
    /\ ok \/ d.made /= <<>>
    /\ chat' = [n |-> chat.n + 1, parts |-> parts, ret |-> d.ret,
                out |-> d.out, rows |-> d.rows, count |-> d.count,
                made |-> d.made, at |-> Len(calls)]
    /\ pages' = Executed(pages, d.made)

\* One call of process_command. A request of a query helper may raise.
ProcessCommand ==
    /\ client
    /\ chat.n < MaxCmds
    /\ \E parts \in Commands, ok \in BOOLEAN :
         \E d \in ProcessCommandOf(pages, parts, ok) : Processed(parts, ok, d)
    /\ UNCHANGED <<openai, client, keyMode, table, pc, workflow, urls, fetched, results,
                   i, stored_count, ret, log, calls, bets, repl, runner>>

\* The crawl of one url by the page workflow, as the user of the terminal tool
\* runs it: main.py calls crawl_and_store_in_supabase with one url.
StartPageOne ==
    /\ pc = "idle"
    /\ \E u \in Urls : CallPage(<<u>>)
    /\ UNCHANGED <<openai, client, keyMode, table, fetched, results, i, stored_count,
                   log, calls, bets, pages, chat, repl, runner>>

OneOutcomes(url) ==
    { o \in PageOutcomes(url) :
        \/ ~o.success
        \/ o.extracted = Json(DictPayload(ValidPageDict)) }

CrawlPageOne ==
    /\ pc = "crawl"
    /\ workflow = "page"
    /\ openai
    /\ \E o \in OneOutcomes(urls[1]) : CrawledPage(<<o>>)
    /\ UNCHANGED <<openai, client, keyMode, table, workflow, urls, stored_count, calls,
                   bets, pages, chat, repl, runner>>

InitChat ==
    /\ openai \in BOOLEAN
    /\ client \in BOOLEAN
    /\ keyMode = "unknown"
    /\ table = <<>>
    /\ pc = "idle"
    /\ workflow = "none"
    /\ urls = <<>>
    /\ fetched = <<>>
    /\ results = <<>>
    /\ i = 0
    /\ stored_count = 0
    /\ ret = "pending"
    /\ log = <<>>
    /\ calls = <<>>
    /\ bets = <<>>
    /\ pages \in PagesTables
    /\ chat = ChatIdle
    /\ repl = ReplOff
    /\ runner = RunnerIdle

NextChat ==
    \/ StartPageOne \/ CrawlPageOne \/ StorePage \/ FinishPage
    \/ ProcessCommand

SpecChat == InitChat /\ [][NextChat]_vars

\* ------------------------------------------------------------------ field values
\* The workflows run on one url whose payload is one mapping, over the values
\* a field may carry: padded, empty, blank or absent strings, optional fields
\* of the schema, a key outside the schema.
ExtraValue == "tracking-id"

FieldPageDicts ==
    { [title |-> t, summary |-> m, extra |-> x] :
        t \in {"Example", "  Example  ", "", "   ", Missing},
        m \in {"A test page.", " A test page. ", ""},
        x \in {Missing, ExtraValue} }

FieldMarketDicts ==
    { [ValidMarketDict EXCEPT !.website_name = w, !.market_category = c,
                              !.probability_percentage = q, !.extra = x] :
        w \in {"Polymarket", "  Polymarket  ", "", "   ", Missing},
        c \in {Missing, "Politics", "   "},
        q \in {Missing, "62.5", "high"},
        x \in {Missing, ExtraValue} }

FieldOutcome(url, d) ==
    [url |-> url, success |-> TRUE, markdown |-> PageMd,
     extracted |-> Json(DictPayload(d)), error_message |-> ""]

CrawlPageFields ==
    /\ pc = "crawl"
    /\ workflow = "page"
    /\ openai
    /\ \E d \in FieldPageDicts : CrawledPage(<<FieldOutcome(urls[1], d)>>)
    /\ UNCHANGED <<openai, client, keyMode, table, workflow, urls, stored_count, calls,
                   bets, pages, chat, repl, runner>>

StartMarketOne ==
    /\ pc = "idle"
    /\ \E u \in Urls : CallMarket(<<u>>)
    /\ UNCHANGED <<openai, client, keyMode, table, fetched, results, i, stored_count,
                   log, calls, bets, pages, chat, repl, runner>>

CrawlMarketFields ==
    /\ pc = "crawl"
    /\ workflow = "market"
    /\ openai
    /\ \E d \in FieldMarketDicts : CrawledMarket(<<FieldOutcome(urls[1], d)>>)
    /\ UNCHANGED <<openai, client, keyMode, table, workflow, urls, stored_count, calls,
                   bets, pages, chat, repl, runner>>

NextFields ==
    \/ StartPageOne \/ CrawlPageFields \/ StorePage \/ FinishPage
    \/ StartMarketOne \/ CrawlMarketFields \/ StoreMarket \/ FinishMarket

SpecFields == Init /\ [][NextFields]_vars

\* ------------------------------------------------------------------ delivery order
\* crawler.arun_many(urls=urls, ...) runs the fetches concurrently and
\* returns one result per url; the code relies on no order of that list, so
\* the list is any arrangement of the results of the urls.
Delivered(outs, us) ==
    /\ Len(outs) = Len(us)
    /\ \E prm \in [1..Len(us) -> 1..Len(us)] :
         /\ \A a, b \in 1..Len(us) : a /= b => prm[a] /= prm[b]
         /\ \A k \in 1..Len(us) : outs[k].url = us[prm[k]]

OrderPageOutcomes(url) ==
    { o \in PageOutcomes(url) :
        \/ ~o.success /\ o.extracted = NoExtract(EmptyPageDict)
        \/ o.success /\ o.extracted = Json(DictPayload(ValidPageDict)) }

OrderMarketOutcomes(url) ==
    { o \in MarketOutcomes(url) :
        \/ ~o.success /\ o.extracted = NoExtract(EmptyMarketDict)
        \/ o.success /\ o.extracted = Json(DictPayload(ValidMarketDict))
        \/ o.success /\ o.extracted =
              Json(ListPayload(<<Mapping(ValidMarketDict),
                                 Mapping([ValidMarketDict EXCEPT !.odds = Missing])>>)) }

CrawlPageAnyOrder ==
    /\ pc = "crawl"
    /\ workflow = "page"
    /\ openai
    /\ \E outs \in [1..Len(urls) -> UNION {OrderPageOutcomes(u) : u \in Urls}] :
         /\ Delivered(outs, urls)
         /\ CrawledPage(outs)
    /\ UNCHANGED <<openai, client, keyMode, table, workflow, urls, stored_count, calls,
                   bets, pages, chat, repl, runner>>

CrawlMarketAnyOrder ==
    /\ pc = "crawl"
    /\ workflow = "market"
    /\ openai
    /\ \E outs \in [1..Len(urls) -> UNION {OrderMarketOutcomes(u) : u \in Urls}] :
         /\ Delivered(outs, urls)
         /\ CrawledMarket(outs)
    /\ UNCHANGED <<openai, client, keyMode, table, workflow, urls, stored_count, calls,
                   bets, pages, chat, repl, runner>>

NextOrder ==
    \/ StartPage \/ CrawlPageAnyOrder \/ StorePage \/ FinishPage
    \/ StartMarket \/ CrawlMarketAnyOrder \/ StoreMarket \/ FinishMarket

SpecOrder == Init /\ [][NextOrder]_vars

\* ------------------------------------------------------------------ store_crawl_results
\* One element of the list given to store_crawl_results: a dict or an object
\* with attributes; its url and raw_markdown, present or not; its analysis,
\* none, a dict or an object.
BulkItems ==
    [form : {"dict", "object"}, url : {UrlA, Missing}, raw_markdown : {PageMd, EmptyMd},
     analysis : {"none", "dict", "object"}]

BulkInputs == SeqsUpTo(BulkItems, MaxUrls)

\* data for one result: the first paragraph, under the analysis header when
\* the result has an analysis; the table's title and summary columns are not
\* given.
BulkData(result) ==
    [url |-> result.url, title |-> JNull, summary |-> JNull,
     content |-> [first |-> ExtractFirstParagraph(result.raw_markdown),
                  header |-> IF result.analysis = "none" THEN ""
                             ELSE "TITLE: " \o ValidPageDict.title \o "\nSUMMARY: "
                                  \o ValidPageDict.summary \o "\n\n"]]

\* client.table('Testing').insert(data).execute(): a row is added, or the
\* call raises, as it does when url is constrained and already there.
InsertOutcomes(tbl, km, data) ==
    LET hit == {j \in 1..Len(tbl) : tbl[j].url = data.url}
        raised(m) == [tbl |-> tbl, km |-> m, ok |-> FALSE]
        inserted(m) == [tbl |-> Append(tbl, NewRow(tbl, data)), km |-> m, ok |-> TRUE]
    IN  {raised(km)} \cup
        IF hit = {}
        THEN {inserted(km)}
        ELSE { IF m = "pk_id" THEN inserted(m) ELSE raised(m) :
               m \in IF km = "unknown" THEN KeyModes ELSE {km} }

\* result['url'] in the prints that follow the insert, and in the except
\* handler: a dict has the key; an object is not subscriptable.
Subscriptable(result) == result.form = "dict"

\* store_crawl_results(rs), up to the loop.
StartBulk ==
    /\ pc = "idle"
    /\ \E rs \in BulkInputs :
         /\ results' = rs
         /\ workflow' = "bulk"
         /\ IF ~client
            THEN pc' = "done" /\ ret' = "returned" /\ i' = i
            ELSE pc' = "bulk" /\ ret' = ret /\ i' = 1
    /\ UNCHANGED <<openai, client, keyMode, table, urls, fetched, stored_count, log, calls,
                   bets, pages, chat, repl, runner>>

\* One iteration of the loop of store_crawl_results.
StoreBulk ==
    /\ pc = "bulk"
    /\ i <= Len(results)
    /\ LET result == results[i]
       IN IF result.url = Missing \/ result.raw_markdown = EmptyMd
          THEN /\ log' = Append(log, Event("skipped", result.url, i, -1,
                                            "missing url or content"))
               /\ i' = i + 1
               /\ UNCHANGED <<table, keyMode, calls, stored_count, pc, ret>>
          ELSE \E o \in InsertOutcomes(table, keyMode, BulkData(result)) :
                 /\ table' = o.tbl
                 /\ keyMode' = o.km
                 /\ calls' = Append(calls,
                        [op |-> "insert", table |-> "Testing", data |-> BulkData(result),
                         ok |-> o.ok, src |-> i, idx |-> 0])
                 /\ stored_count' = IF o.ok THEN stored_count + 1 ELSE stored_count
                 /\ IF Subscriptable(result)
                    THEN /\ log' = Append(log,
                               Event(IF o.ok THEN "stored" ELSE "store_failed",
                                     result.url, i, 0,
                                     IF o.ok THEN "Stored in Supabase"
                                     ELSE "Failed to store"))
                         /\ i' = i + 1
                         /\ UNCHANGED <<pc, ret>>
                    ELSE /\ log' = log
                         /\ i' = i
                         /\ pc' = "done"
                         /\ ret' = "TypeError"
    /\ UNCHANGED <<openai, client, workflow, urls, fetched, results, bets, pages, chat, repl, runner>>

\* return stored_count
FinishBulk ==
    /\ pc = "bulk"
    /\ i > Len(results)
    /\ pc' = "done"
    /\ ret' = "returned"
    /\ UNCHANGED <<openai, client, keyMode, table, workflow, urls, fetched, results, i,
                   stored_count, log, calls, bets, pages, chat, repl, runner>>

NextBulk == StartBulk \/ StoreBulk \/ FinishBulk

SpecBulk == Init /\ [][NextBulk]_vars

\* ------------------------------------------------------------------ the handler called directly
\* store_page_summary(url, title, summary, raw_markdown) called on the
\* handler itself; ret is "data" for the rows it returns, "None" for None.
CallStorePageSummary ==
    /\ pc = "idle"
    /\ \E u \in Urls, md \in {PageMd, EmptyMd} :
         \E o \in StorePageSummary(table, keyMode, client, u, ValidPageDict.title,
                                   ValidPageDict.summary, md) :
            /\ urls' = <<u>>
            /\ table' = o.tbl
            /\ keyMode' = o.km
            /\ calls' = calls \o
                  [k \in 1..Len(o.made) |->
                     [op |-> o.made[k].op, table |-> o.made[k].table,
                      data |-> o.made[k].data, ok |-> o.made[k].ok, src |-> 0, idx |-> 0]]
            /\ ret' = IF o.resp THEN "data" ELSE "None"
    /\ pc' = "done"
    /\ workflow' = "summary"
    /\ UNCHANGED <<openai, client, fetched, results, i, stored_count, log, bets, pages,
                   chat, repl, runner>>

NextHandler ==
    \/ StartPageOne \/ CrawlPageOne \/ StorePage \/ FinishPage
    \/ StartMarketOne \/ CrawlMarketFields \/ StoreMarket \/ FinishMarket
    \/ StartBulk \/ StoreBulk \/ FinishBulk
    \/ CallStorePageSummary

SpecHandler == Init /\ [][NextHandler]_vars

\* ------------------------------------------------------------------ run()
\* The loop ended for the reason why.
Ended(why) == [repl EXCEPT !.state = "ended", !.why = why]

\* The loop after a command whose failed query ends it.
AfterCommand_FailEnds(d) ==
    IF ~d.ret THEN Ended("quit")
    ELSE IF d.made /= <<>> /\ ~d.made[1].ok THEN Ended("query failed")
    ELSE repl

\* if not self.process_command(user_input): break
AfterCommand(d) ==
    IF ~d.ret
    THEN Ended("quit")
    ELSE [repl EXCEPT !.failed = IF d.made /= <<>> /\ ~d.made[1].ok THEN @ + 1 ELSE @]

\* run(), up to the loop: the connection test, which returns False when its
\* request raises.
RunRepl ==
    /\ client
    /\ repl.state = "off"
    /\ \E ok \in BOOLEAN :
         repl' = IF ok
                 THEN [repl EXCEPT !.state = "loop", !.test = "ok"]
                 ELSE [repl EXCEPT !.state = "ended", !.why = "connection failure",
                                   !.test = "failed"]
    /\ UNCHANGED <<openai, client, keyMode, table, pc, workflow, urls, fetched, results,
                   i, stored_count, ret, log, calls, bets, pages, chat, runner>>

\* input() returned a line and process_command returned.
ReplCommand ==
    /\ repl.state = "loop"
    /\ chat.n < MaxCmds
    /\ \E parts \in Commands, ok \in BOOLEAN :
         \E d \in ProcessCommandOf(pages, parts, ok) :
            /\ Processed(parts, ok, d)
            /\ repl' = AfterCommand(d)
    /\ UNCHANGED <<openai, client, keyMode, table, pc, workflow, urls, fetched, results,
                   i, stored_count, ret, log, calls, bets, runner>>

\* except EOFError: break
ReplEndOfInput ==
    /\ repl.state = "loop"
    /\ repl' = Ended("EOFError")
    /\ UNCHANGED <<openai, client, keyMode, table, pc, workflow, urls, fetched, results,
                   i, stored_count, ret, log, calls, bets, pages, chat, runner>>

\* except KeyboardInterrupt: break
ReplInterrupt ==
    /\ repl.state = "loop"
    /\ repl' = Ended("KeyboardInterrupt")
    /\ UNCHANGED <<openai, client, keyMode, table, pc, workflow, urls, fetched, results,
                   i, stored_count, ret, log, calls, bets, pages, chat, runner>>

\* except Exception around the loop: input() or a print raised something that
\* is neither EOFError nor KeyboardInterrupt (undecodable bytes, a closed
\* stream); the loop is left.
ReplUnexpected ==
    /\ repl.state = "loop"
    /\ repl' = Ended("Unexpected error")
    /\ UNCHANGED <<openai, client, keyMode, table, pc, workflow, urls, fetched, results,
                   i, stored_count, ret, log, calls, bets, pages, chat, runner>>

NextRepl ==
    \/ RunRepl \/ ReplCommand \/ ReplEndOfInput \/ ReplInterrupt \/ ReplUnexpected

SpecRepl == InitChat /\ [][NextRepl]_vars

\* ------------------------------------------------------------------ run_tests.py
\* The store_true options of the argument parser (--verbose is on by default
\* and changes no branch).
Flags == {"unit", "integration", "crawl4ai", "supabase", "async_tests", "sync_tests",
          "pytest"}

\* The conditions of main() under which the direct runner calls
\* run_async_tests_directly and run_sync_tests.
AsyncSelected(args) ==
    "async_tests" \in args \/ ("sync_tests" \notin args /\ "supabase" \notin args)
SyncSelected(args) ==
    \/ "sync_tests" \in args
    \/ "supabase" \in args
    \/ ("async_tests" \notin args /\ "crawl4ai" \notin args /\ "integration" \notin args)

\* Where main() goes once the async tests are over.
AfterAsync(args) == IF SyncSelected(args) THEN "supabase" ELSE "exit"

\* What running one group of tests may give: its import fails, or it runs and
\* returns True or False.
GroupResults == {"import_error", "passed", "failed"}

\* The groups run so far, and the imports that failed, after group g gave r.
Ran(g, r) ==
    IF r = "import_error" THEN runner.ran
    ELSE Append(runner.ran, [group |-> g, ok |-> r = "passed"])
ImportErrors(g, r) ==
    IF r = "import_error" THEN Append(runner.errors, g) ELSE runner.errors

\* main(), up to the first group of tests.
RunnerMain ==
    /\ runner.pc = "idle"
    /\ \E args \in SUBSET Flags :
         runner' = [runner EXCEPT
                      !.args = args,
                      !.pc = IF "pytest" \in args THEN "pytest"
                             ELSE IF AsyncSelected(args) THEN "crawl4ai"
                             ELSE AfterAsync(args)]
    /\ UNCHANGED <<openai, client, keyMode, table, pc, workflow, urls, fetched, results, i,
                   stored_count, ret, log, calls, bets, pages, chat, repl>>

\* run_pytest_command(test_paths, markers, args.verbose)
RunPytestCommand ==
    /\ runner.pc = "pytest"
    /\ \E rc \in BOOLEAN :
         LET a == runner.args
             all == a \cap {"unit", "integration", "crawl4ai", "supabase"} = {}
         IN runner' = [runner EXCEPT
                         !.markers = a \cap {"unit", "integration", "crawl4ai", "supabase"},
                         !.test_paths =
                            IF all THEN {"tests/"}
                            ELSE (IF "crawl4ai" \in a \/ "unit" \in a
                                  THEN {"tests/crawl4ai/"} ELSE {})
                                 \cup (IF "supabase" \in a \/ "unit" \in a
                                       THEN {"tests/supabase/"} ELSE {})
                                 \cup (IF "integration" \in a
                                       THEN {"tests/integration/"} ELSE {}),
                         !.ran = <<[group |-> "pytest", ok |-> rc]>>,
                         !.success = rc,
                         !.pc = "exit"]
    /\ UNCHANGED <<openai, client, keyMode, table, pc, workflow, urls, fetched, results, i,
                   stored_count, ret, log, calls, bets, pages, chat, repl>>

\* run_async_tests_directly: the Crawl4AI basic tests; it returns False when
\* they fail or cannot be imported.
RunCrawl4aiTests ==
    /\ runner.pc = "crawl4ai"
    /\ \E r \in GroupResults :
         runner' = [runner EXCEPT
                      !.ran = Ran("crawl4ai", r),
                      !.errors = ImportErrors("crawl4ai", r),
                      !.success = IF r = "passed" THEN @ ELSE FALSE,
                      !.pc = IF r = "passed" THEN "integration"
                             ELSE AfterAsync(runner.args)]
    /\ UNCHANGED <<openai, client, keyMode, table, pc, workflow, urls, fetched, results, i,
                   stored_count, ret, log, calls, bets, pages, chat, repl>>

\* run_async_tests_directly: the integration tests, whose result it returns.
RunIntegrationTests ==
    /\ runner.pc = "integration"
    /\ \E r \in GroupResults :
         runner' = [runner EXCEPT
                      !.ran = Ran("integration", r),
                      !.errors = ImportErrors("integration", r),
                      !.success = @ /\ r = "passed",
                      !.pc = AfterAsync(runner.args)]
    /\ UNCHANGED <<openai, client, keyMode, table, pc, workflow, urls, fetched, results, i,
                   stored_count, ret, log, calls, bets, pages, chat, repl>>

\* run_sync_tests: the Supabase database tests.
RunSyncTests ==
    /\ runner.pc = "supabase"
    /\ \E r \in GroupResults :
         runner' = [runner EXCEPT
                      !.ran = Ran("supabase", r),
                      !.errors = ImportErrors("supabase", r),
                      !.success = @ /\ r = "passed",
                      !.pc = "exit"]
    /\ UNCHANGED <<openai, client, keyMode, table, pc, workflow, urls, fetched, results, i,
                   stored_count, ret, log, calls, bets, pages, chat, repl>>

\* sys.exit(0) if success, sys.exit(1) otherwise.
RunnerExit ==
    /\ runner.pc = "exit"
    /\ runner' = [runner EXCEPT !.exit = IF runner.success THEN 0 ELSE 1, !.pc = "done"]
    /\ UNCHANGED <<openai, client, keyMode, table, pc, workflow, urls, fetched, results, i,
                   stored_count, ret, log, calls, bets, pages, chat, repl>>

NextRunner ==
    \/ RunnerMain \/ RunPytestCommand \/ RunCrawl4aiTests \/ RunIntegrationTests
    \/ RunSyncTests \/ RunnerExit

SpecRunner == Init /\ [][NextRunner]_vars

Next ==
    \/ StartPage \/ CrawlPage \/ StorePage \/ FinishPage
    \/ StartMarket \/ CrawlMarket \/ StoreMarket \/ FinishMarket

Spec == Init /\ [][Next]_vars

\* ------------------------------------------------------------------ properties
AcceptKinds == {"stored"}
RejectKinds ==
    {"failed_analyze", "failed_crawl", "failed_extract", "no_url", "no_analysis",
     "store_failed", "validate_failed", "no_market_data"}

Accepted == {n \in DOMAIN log : log[n].kind \in AcceptKinds}
Rejected == {n \in DOMAIN log : log[n].kind \in RejectKinds}

\* The events that dispose of outcome k or of one of its candidates, the
\* storage calls made for it, and the payload it carried.
Disposed(k) == {n \in Accepted \cup Rejected : log[n].src = k}
DisposedAt(k, j) == {n \in Disposed(k) : log[n].idx = j}
CallsOf(k) == {n \in DOMAIN calls : calls[n].src = k}
Payload(k) == fetched[k].extracted.data
Extracted(k) == fetched[k].success /\ fetched[k].extracted.state = "json"

\* The keys of a payload mapping that its schema does not require.
OptionalKeys == {"market_category", "probability_percentage", "extra"}

\* A candidate that has every required field of its schema, as a string.
Complete(cand) ==
    /\ cand.isDict
    /\ \A f \in DOMAIN cand.d \ OptionalKeys : cand.d[f] \notin {Missing, JNull}

\* The value the page workflow reads its fields from.
FirstCandidate(p) == p.items[1]

IsList(p) == p.kind = "list"
ListOfMappings(p) == IsList(p) /\ \A j \in DOMAIN p.items : p.items[j].isDict
ListOfOthers(p) ==
    IsList(p) /\ p.items /= <<>> /\ \A j \in DOMAIN p.items : ~p.items[j].isDict

RECURSIVE SumTo(_, _)
SumTo(f, k) == IF k = 0 THEN 0 ELSE f[k] + SumTo(f, k - 1)

C2_OneRowPerKey ==
    \A u \in Urls :
       LET rows == {j \in DOMAIN table : table[j].url = u}
           oks == {n \in DOMAIN calls : calls[n].ok /\ calls[n].data.url = u}
       IN /\ Cardinality(rows) <= 1
          /\ oks /= {} =>
               LET last == CHOOSE n \in oks : \A m \in oks : m <= n
               IN \A j \in rows : /\ table[j].title = calls[last].data.title
                                   /\ table[j].summary = calls[last].data.summary

\* ---- C3
\* The candidates the claim counts for one outcome: N for a list of N >= 1
\* mappings, 1 for anything else.
ClaimedCandidates(o) ==
    IF /\ o.success /\ o.extracted.state = "json"
       /\ ListOfMappings(o.extracted.data) /\ o.extracted.data.items /= <<>>
    THEN Len(o.extracted.data.items)
    ELSE 1

\* C3 as stated: after a pass in which no storage call failed, accepted +
\* rejected is the number of candidates, N for an outcome whose payload is an
\* N-element list.
C3_CountsMatchClaimed ==
    (pc = "done" /\ fetched /= <<>> /\ \A n \in DOMAIN calls : calls[n].ok) =>
       Cardinality(Accepted) + Cardinality(Rejected) =
          SumTo([k \in DOMAIN fetched |-> ClaimedCandidates(fetched[k])], Len(fetched))

\* The candidates the code makes of one outcome: the elements of a non-empty
\* list in the market workflow, 1 for anything else.
CodeCandidates(w, o) ==
    IF /\ w = "market" /\ o.success /\ o.extracted.state = "json"
       /\ IsList(o.extracted.data) /\ o.extracted.data.items /= <<>>
    THEN Len(o.extracted.data.items)
    ELSE 1

\* C3 amended: after a pass, accepted + rejected is the number of candidates,
\* where an outcome counts 1 (a fetch failure, a success with nothing
\* extracted, an unparsable, null, empty or scalar payload, a single mapping,
\* and, in the page workflow, a list, of which only the first element is a
\* candidate) or, in the market workflow, N for a list of N >= 1 elements;
\* every candidate ends in exactly one of the two outcomes.
C3_CountsMatchCode ==
    (pc = "done" /\ fetched /= <<>>) =>
       /\ Cardinality(Accepted) + Cardinality(Rejected) =
            SumTo([k \in DOMAIN fetched |-> CodeCandidates(workflow, fetched[k])],
                  Len(fetched))
       /\ \A k \in DOMAIN fetched :
            Cardinality(Disposed(k)) = CodeCandidates(workflow, fetched[k])
       /\ Accepted \cap Rejected = {}

\* A finished market pass in which one outcome carried a list of two
\* elements, each of which got its own event, beside a failed fetch.
C3_Witness ==
    /\ pc = "done" /\ workflow = "market" /\ Len(fetched) = 2
    /\ \E k \in DOMAIN fetched :
         /\ Extracted(k) /\ IsList(Payload(k)) /\ Len(Payload(k).items) = 2
         /\ Cardinality(Disposed(k)) = 2
    /\ \E k \in DOMAIN fetched : ~fetched[k].success /\ Cardinality(Disposed(k)) = 1

\* ---- C4
\* C4 as stated: every element of a list of mappings is a candidate of its
\* own: none is skipped, and a valid element is accepted under its own
\* position when no storage call fails.
C4_EveryElementSettled ==
    (pc = "done" /\ \A n \in DOMAIN calls : calls[n].ok) =>
       \A k \in DOMAIN fetched :
          (Extracted(k) /\ ListOfMappings(Payload(k))) =>
             \A j \in DOMAIN Payload(k).items :
                /\ DisposedAt(k, j - 1) /= {}
                /\ Complete(Payload(k).items[j])
                     => DisposedAt(k, j - 1) \cap Accepted /= {}

\* C4 amended: in the market workflow every element of a list payload is a
\* candidate of its own and gets exactly one event, in the order of the list,
\* none skipped; in the page workflow only the first element of a list payload
\* is a candidate: the one write made for the outcome carries the fields of
\* that element, and the other elements are ignored.
C4_ElementsByWorkflow ==
    pc = "done" =>
       \A k \in DOMAIN fetched :
          (Extracted(k) /\ IsList(Payload(k)) /\ Payload(k).items /= <<>>) =>
             IF workflow = "market"
             THEN /\ \A j \in DOMAIN Payload(k).items :
                       Cardinality(DisposedAt(k, j - 1)) = 1
                  /\ \A m, n \in Disposed(k) : m < n => log[m].idx < log[n].idx
             ELSE /\ \A n \in Disposed(k) : log[n].idx = 0
                  /\ Cardinality(CallsOf(k)) = 1
                  /\ \A n \in CallsOf(k) :
                       LET first == Payload(k).items[1]
                       IN /\ calls[n].idx = 0
                          /\ first.isDict =>
                               /\ calls[n].data.title = DictGet(first.d, "title", NoTitle)
                               /\ calls[n].data.summary =
                                    DictGet(first.d, "summary", NoSummary)

\* A finished page pass over a list whose first mapping has no title and
\* whose second is valid: one write, with the placeholder title.
C4_Witness ==
    /\ pc = "done" /\ workflow = "page"
    /\ \E k \in DOMAIN fetched :
         /\ Extracted(k) /\ IsList(Payload(k)) /\ Len(Payload(k).items) = 2
         /\ Payload(k).items[1].d.title = Missing
         /\ Complete(Payload(k).items[2])
         /\ \E n \in CallsOf(k) : calls[n].data.title = NoTitle
         /\ Cardinality(Disposed(k)) = 1

\* ---- C5
\* A payload that is neither a mapping nor a list of mappings.
OtherShape(p) == p.kind \in {"null", "str"} \/ ListOfOthers(p)

C6_FailureRejectedOnce ==
    \A k \in DOMAIN fetched :
       ~fetched[k].success =>
          LET evs == {n \in DOMAIN log : log[n].src = k}
          IN /\ Cardinality(evs) = 1
             /\ \A n \in evs : /\ log[n].kind \in RejectKinds
                               /\ log[n].reason = fetched[k].error_message
                               /\ log[n].url = fetched[k].url
             /\ \A r \in DOMAIN results : results[r].src /= k

\* A failed fetch that still carried a JSON payload was rejected, beside a
\* successful one.
C6_Witness ==
    \E k, m \in DOMAIN fetched :
       /\ ~fetched[k].success /\ fetched[k].extracted.state = "json"
       /\ \E n \in Rejected : log[n].src = k /\ log[n].reason = "timeout after 30s"
       /\ fetched[m].success

\* ---- C7
\* C7: no storage write is ever made for a crawl result with success = false,
\* and no row of the table comes from one.
C7_FailedCrawlNeverStored ==
    /\ \A n \in DOMAIN calls : fetched[calls[n].src].success
    /\ \A j \in DOMAIN table :
         \E n \in DOMAIN calls :
            /\ calls[n].ok /\ calls[n].data.url = table[j].url
            /\ fetched[calls[n].src].success

\* A finished page pass that stored one page and dropped a failed crawl that
\* carried a valid payload.
C7_Witness ==
    /\ pc = "done" /\ workflow = "page" /\ table /= <<>>
    /\ \E k \in DOMAIN fetched :
         /\ ~fetched[k].success /\ fetched[k].extracted.state = "json"
         /\ CallsOf(k) = {}

\* ---- C8
\* An outcome that is malformed, and one that carries a valid single mapping.
BadItem(k) ==
    \/ ~fetched[k].success
    \/ fetched[k].extracted.state /= "json"
    \/ OtherShape(Payload(k))
    \/ \E j \in DOMAIN Payload(k).items : ~Complete(Payload(k).items[j])
ValidItem(k) ==
    Extracted(k) /\ Payload(k).kind = "dict" /\ Complete(Payload(k).items[1])

\* C8 as stated: in a batch in which item a is malformed, every other item b
\* is still processed and, if valid, stored: a storage write is made for it.
C8_BadItemDoesNotAbort ==
    pc = "done" =>
       \A a, b \in DOMAIN fetched :
          (a /= b /\ BadItem(a) /\ ValidItem(b)) =>
             /\ Disposed(b) /= {}
             /\ CallsOf(b) /= {}

C10_SameKeyTwice ==
    \A n1, n2 \in DOMAIN calls :
       (/\ fetched[calls[n1].src].url = fetched[calls[n2].src].url
        /\ Payload(calls[n1].src) = Payload(calls[n2].src)) =>
          calls[n1].data.url = calls[n2].data.url

\* The same valid mapping was written twice for the same url, the first
\* write having stored a row.
C10_Witness ==
    \E n1, n2 \in DOMAIN calls :
       /\ n1 < n2
       /\ calls[n1].ok
       /\ fetched[calls[n1].src].url = fetched[calls[n2].src].url
       /\ Payload(calls[n1].src) = DictPayload(ValidPageDict)
       /\ Payload(calls[n2].src) = DictPayload(ValidPageDict)
       /\ calls[n1].data.url = calls[n2].data.url

\* ---- C11
\* C11: a `find u` that ran, without its request raising, after the page
\* workflow had stored a page for u, printed that page: the row stored for u.
C11_FindReturnsStored ==
    \A u \in Urls :
       (/\ chat.n > 0 /\ Len(chat.parts) = 2
        /\ Lower(chat.parts[1]) = "find" /\ chat.parts[2] = u
        /\ chat.made[1].ok
        /\ \E n \in 1..chat.at : calls[n].ok /\ calls[n].data.url = u) =>
          \E j \in DOMAIN table : table[j].url = u /\ chat.rows = <<table[j]>>

\* ---- C12
\* C12: a call of process_command, whatever the command, leaves the rows of
\* both tables as they were, and every call it makes on its client is a
\* select.
C12_ReadOnly ==
    [][chat' /= chat =>
         /\ table' = table
         /\ pages' = pages
         /\ \A k \in DOMAIN chat'.made : chat'.made[k].op = "select"]_vars

\* An unknown command that names a stored url was given after another
\* command, with rows in both tables.
C12_Witness ==
    /\ chat.n >= 2
    /\ chat.parts = <<"delete", UrlA>>
    /\ chat.out = "Unknown command"
    /\ \E j \in DOMAIN pages : pages[j].url = UrlA
    /\ \E j \in DOMAIN table : table[j].url = UrlA

\* ---- C13
\* C13: after a market pass with an available storage client, a result whose
\* prediction data is a list of N valid markets, or one valid mapping (N = 1),
\* got N storage writes, and the call returned True if one of them stored.
C13_EveryMarketStored ==
    (pc = "done" /\ workflow = "market" /\ client) =>
       \A k \in DOMAIN fetched :
          (/\ Extracted(k) /\ Payload(k).kind \in {"dict", "list"}
           /\ Payload(k).items /= <<>>
           /\ \A j \in DOMAIN Payload(k).items : Complete(Payload(k).items[j])) =>
             /\ Cardinality(CallsOf(k)) = Len(Payload(k).items)
             /\ (\E n \in CallsOf(k) : calls[n].ok) => ret = "True"

\* ---- C14
\* str.strip() and float(), on the strings of the model.
Strip(v) ==
    CASE v = "  Example  " -> "Example"
      [] v = " A test page. " -> "A test page."
      [] v = "  Polymarket  " -> "Polymarket"
      [] v = "   " -> ""
      [] OTHER -> v
ParseFloat(v) == IF v = "62.5" THEN "<float 62.5>" ELSE JNull

\* The same candidate without its key outside the schema.
WithoutExtra(cand) == Mapping([cand.d EXCEPT !.extra = Missing])
HasExtra(k) == Extracted(k) /\ FirstCandidate(Payload(k)).d.extra /= Missing

\* C14: no value written to storage, and no field of a validated market, is
\* the value of a key outside the schema; a page candidate that carries such a
\* key is written, with the title and summary it would have without the key,
\* and a market candidate that carries one ends as it would without the key.
C14_ExtrasIgnored ==
    /\ \A n \in DOMAIN calls :
         \A f \in {"url", "title", "summary"} : calls[n].data[f] /= ExtraValue
    /\ \A n \in DOMAIN bets :
         \A f \in DOMAIN bets[n].bet : bets[n].bet[f] /= ExtraValue
    /\ pc = "done" =>
         \A k \in DOMAIN fetched :
            HasExtra(k) =>
              LET cand == FirstCandidate(Payload(k))
              IN IF workflow = "page"
                 THEN /\ Cardinality(CallsOf(k)) = 1
                      /\ \A n \in CallsOf(k) :
                           /\ calls[n].data.title = PageTitle(WithoutExtra(cand))
                           /\ calls[n].data.summary = PageSummaryOf(WithoutExtra(cand))
                           /\ {log[m].kind : m \in Disposed(k)} =
                                {IF calls[n].ok THEN "stored" ELSE "store_failed"}
                 ELSE /\ {log[m] : m \in Disposed(k)} =
                           {StoreMarketItem(fetched[k].url, k, 0, WithoutExtra(cand))}
                      /\ {bets[n] : n \in DOMAIN bets} =
                           {b[1] : b \in {BetsOf(k, <<WithoutExtra(cand)>>, 1)} \ {<<>>}}

\* A page whose payload carried a key outside the schema was stored, the row
\* holding its title.
C14_Witness ==
    /\ pc = "done" /\ workflow = "page" /\ Len(fetched) = 1 /\ HasExtra(1)
    /\ FirstCandidate(Payload(1)).d.title = "Example"
    /\ \E j \in DOMAIN table : table[j].title = "Example"
    /\ \E n \in Accepted : log[n].src = 1

\* ---- C15
\* C15: a market validated from a candidate that carries an optional field
\* holds that field with its declared type: the string of market_category, the
\* number of a numeric probability_percentage; a value that cannot be coerced
\* leaves the field absent.
C15_OptionalCarried ==
    \A n \in DOMAIN bets :
       LET c == Payload(bets[n].src).items[bets[n].idx + 1].d
       IN /\ (c.market_category /= Missing /\ Strip(c.market_category) /= "") =>
               bets[n].bet.market_category = c.market_category
          /\ c.probability_percentage /= Missing =>
               bets[n].bet.probability_percentage =
                  ParseFloat(c.probability_percentage)

\* ---- C16
Blank(v) == v /= Missing /\ v /= JNull /\ Strip(v) = ""

\* C16 as stated: a candidate whose required string field is empty or blank
\* is rejected and no write is made for it (storage calls all succeeding).
C16_BlankRejected ==
    (pc = "done" /\ \A n \in DOMAIN calls : calls[n].ok) =>
       \A k \in DOMAIN fetched :
          LET d == FirstCandidate(Payload(k)).d
          IN (Extracted(k) /\ \E f \in DOMAIN d \ OptionalKeys : Blank(d[f])) =>
                /\ CallsOf(k) = {}
                /\ Disposed(k) /= {}
                /\ Disposed(k) \subseteq Rejected

\* C16 amended: an empty or blank required field rejects nothing. In the page
\* workflow the write is issued and carries the value as it is; in the market
\* workflow the value passes validation, the market is constructed with it and
\* the candidate then ends, like every market candidate, at the absent storage
\* method, with no write. An optional string field that is empty or blank is
\* absent from the constructed market.
C16_BlankWritten ==
    /\ pc = "done" =>
         \A k \in DOMAIN fetched :
            LET d == FirstCandidate(Payload(k)).d
            IN (Extracted(k) /\ \E f \in DOMAIN d \ OptionalKeys : Blank(d[f])) =>
                 IF workflow = "page"
                 THEN /\ Cardinality(CallsOf(k)) = 1
                      /\ \A n \in CallsOf(k) :
                           /\ Blank(d.title) => calls[n].data.title = d.title
                           /\ Blank(d.summary) => calls[n].data.summary = d.summary
                 ELSE /\ CallsOf(k) = {}
                      /\ \E n \in DOMAIN bets :
                           /\ bets[n].src = k
                           /\ bets[n].bet.website_name = d.website_name
                      /\ \A m \in Disposed(k) :
                           log[m].reason = "AttributeError: store_prediction_market_data"
    /\ \A n \in DOMAIN bets :
         LET c == Payload(bets[n].src).items[bets[n].idx + 1].d
         IN Blank(c.market_category) => bets[n].bet.market_category = JNull

\* A page with a blank title was stored, the row holding the blank title.
C16_Witness ==
    /\ pc = "done" /\ workflow = "page" /\ Len(fetched) = 1 /\ Extracted(1)
    /\ FirstCandidate(Payload(1)).d.title = "   "
    /\ \E j \in DOMAIN table : table[j].title = "   "
    /\ \E n \in Accepted : log[n].src = 1

\* ---- C17
\* C17 as stated: the title and the summary of every write are those of the
\* payload with leading and trailing whitespace removed.
C17_Trimmed ==
    \A n \in DOMAIN calls :
       LET d == FirstCandidate(Payload(calls[n].src)).d
       IN /\ d.title /= Missing => calls[n].data.title = Strip(d.title)
          /\ d.summary /= Missing => calls[n].data.summary = Strip(d.summary)

\* C17 amended: the title and the summary of every write are those of the
\* payload exactly as it carries them, leading and trailing whitespace
\* included, and so is the row stored.
C17_Verbatim ==
    \A n \in DOMAIN calls :
       LET d == FirstCandidate(Payload(calls[n].src)).d
       IN /\ d.title /= Missing => calls[n].data.title = d.title
          /\ d.summary /= Missing => calls[n].data.summary = d.summary
          /\ (calls[n].ok /\ d.title /= Missing /\ d.summary /= Missing) =>
                \E j \in DOMAIN table :
                   table[j].title = d.title /\ table[j].summary = d.summary

\* The padded title and summary of a payload are in the row stored.
C17_Witness ==
    \E n \in DOMAIN calls :
       /\ calls[n].ok
       /\ FirstCandidate(Payload(calls[n].src)).d.title = "  Example  "
       /\ \E j \in DOMAIN table :
            table[j].title = "  Example  " /\ table[j].summary = " A test page. "

\* ---- C18
\* C18: in a market pass that rejected a candidate which lacks one required
\* field and is valid otherwise, the same candidate with that field present is
\* accepted.
C18_AddingFieldAccepts ==
    (pc = "done" /\ workflow = "market") =>
       \A a, b \in DOMAIN fetched :
          (/\ Extracted(a) /\ Extracted(b)
           /\ Payload(a).kind = "dict" /\ Payload(b).kind = "dict"
           /\ Complete(FirstCandidate(Payload(b)))
           /\ \E f \in DOMAIN CleanData(FirstCandidate(Payload(b)).d) :
                 FirstCandidate(Payload(a)).d =
                    [FirstCandidate(Payload(b)).d EXCEPT ![f] = Missing]
           /\ Disposed(a) /= {} /\ Disposed(a) \subseteq Rejected) =>
             Disposed(b) \cap Accepted /= {}

\* ---- C19
\* The position of a url in the input, for an input of distinct urls.
InputPos(u) == CHOOSE k \in DOMAIN urls : urls[k] = u
DistinctUrls == \A a, b \in DOMAIN urls : a /= b => urls[a] /= urls[b]

\* The events that dispose of something, in the order they were printed.
Settled == Accepted \cup Rejected

\* C19 as stated: the accept and reject events follow the order of the input
\* urls, and within one list payload the order of its elements.
C19_InputOrder ==
    DistinctUrls =>
       \A m, n \in Settled :
          m < n =>
             /\ InputPos(log[m].url) <= InputPos(log[n].url)
             /\ log[m].src = log[n].src => log[m].idx < log[n].idx

\* The events a crawl method prints for the results it drops.
CrawlKinds == {"failed_analyze", "failed_crawl", "failed_extract"}

\* C19 amended: the events follow the order in which the fetch stage
\* delivered the results, not the input order, in two passes: the rejections
\* of failed fetches first, printed by the crawl method, then the events of
\* the store loop; within each pass the order of the delivered list, and within
\* one list payload the order of its elements.
C19_DeliveryOrder ==
    \A m, n \in Settled :
       m < n =>
          /\ log[n].kind \in CrawlKinds => log[m].kind \in CrawlKinds
          /\ (log[m].kind \in CrawlKinds <=> log[n].kind \in CrawlKinds) =>
                log[m].src <= log[n].src
          /\ log[m].src = log[n].src => log[m].idx < log[n].idx

\* A finished page pass over two urls whose results were delivered in the
\* other order, both stored: the second url's event is first.
C19_Witness ==
    /\ pc = "done" /\ workflow = "page" /\ urls = <<UrlA, UrlB>>
    /\ Len(fetched) = 2 /\ fetched[1].url = UrlB
    /\ Len(log) = 2
    /\ log[1].kind = "stored" /\ log[1].url = UrlB
    /\ log[2].kind = "stored" /\ log[2].url = UrlA

\* ---- C20
\* C20: store_crawl_results, given dicts or objects, returns, and what it
\* returns is the number of its writes that stored a record.
C20_ReturnsStoredCount ==
    (pc = "done" /\ workflow = "bulk") =>
       /\ ret = "returned"
       /\ stored_count = Cardinality({n \in DOMAIN calls : calls[n].ok})

\* ---- C21
\* Every fetch of the run succeeded.
AllCrawled == fetched /= <<>> /\ \A k \in DOMAIN fetched : fetched[k].success

\* Every url of the run has a row in the table.
AllUrlsStored == \A k \in DOMAIN urls : \E j \in DOMAIN table : table[j].url = urls[k]

\* C21 as stated: after a page run with an OpenAI key in which every url was
\* crawled successfully and no storage call failed, the stored count is the
\* number of urls and every url has a row.
C21_CrawledIsStored ==
    (pc = "done" /\ workflow = "page" /\ openai /\ AllCrawled
     /\ \A n \in DOMAIN calls : calls[n].ok) =>
       /\ stored_count = Len(urls)
       /\ AllUrlsStored

\* C21 amended: a successful crawl is stored only if the extractor returned
\* JSON text for it whose value is truthy, and its write returned rows. After
\* a page run in which that is so for every url, the stored count is the number
\* of urls, every url has a row, and the run returned True; a url crawled
\* successfully without such a payload gets no write and no row of its own.
C21_ExtractedIsStored ==
    /\ (pc = "done" /\ workflow = "page" /\ openai /\ AllCrawled
        /\ (\A k \in DOMAIN fetched : Extracted(k) /\ Truthy(Payload(k)))
        /\ \A n \in DOMAIN calls : calls[n].ok) =>
          /\ stored_count = Len(urls)
          /\ AllUrlsStored
          /\ ret = "True"
    /\ (pc = "done" /\ workflow = "page") =>
          \A k \in DOMAIN fetched :
             (fetched[k].success /\ ~(Extracted(k) /\ Truthy(Payload(k)))) =>
                CallsOf(k) = {}

\* Two urls were crawled successfully with a payload and both were stored.
C21_Witness ==
    /\ pc = "done" /\ workflow = "page" /\ openai /\ AllCrawled
    /\ Len(urls) = 2 /\ urls[1] /= urls[2]
    /\ \A k \in DOMAIN fetched : Extracted(k) /\ Truthy(Payload(k))
    /\ \A n \in DOMAIN calls : calls[n].ok
    /\ stored_count = 2
    /\ Len(table) = 2

\* ---- C22
\* C22: process_command returns False exactly when the first token of the
\* input, letter case ignored, is quit or exit; it returns True for every other
\* input, the empty one included.
C22_FalseOnlyOnQuit ==
    chat.n > 0 =>
       (chat.ret = FALSE <=>
          (chat.parts /= <<>> /\ chat.parts[1] \in {"quit", "exit", "EXIT"}))

\* EXIT in capitals, followed by another word, made process_command return
\* False.
C22_Witness ==
    chat.n > 0 /\ chat.parts = <<"EXIT", "now">> /\ chat.ret = FALSE

\* ---- C23
\* The request of the last command raised.
QueryFailed == chat.n > 0 /\ chat.made /= <<>> /\ ~chat.made[1].ok

\* C23: when the database call of a query helper fails the helper does not
\* raise: the list helpers give an empty list, find_page_by_url and
\* get_page_content give None, count_total_pages gives 0, and the command
\* that called it prints that and returns.
C23_HelpersNeverRaise ==
    QueryFailed =>
       LET kind == chat.made[1].what.kind
       IN /\ chat.ret = TRUE
          /\ chat.rows = <<>>
          /\ chat.count = IF kind = "count" THEN 0 ELSE -1
          /\ chat.out =
               CASE kind \in {"latest", "title", "summary", "summaries"} -> "pages"
                 [] kind = "find" -> "Page not found"
                 [] kind = "content" -> "Page with ID not found"
                 [] kind = "count" -> "Total pages in database"
                 [] kind = "test" -> "Database connection failed"

\* The request of a count failed on a table that has rows, and 0 was printed.
C23_Witness ==
    /\ QueryFailed
    /\ chat.made[1].what.kind = "count"
    /\ pages /= <<>>
    /\ chat.count = 0

\* ---- C25
\* C25: the limit the latest command passes to the database is in 1..50: 5
\* with no argument, N for 1 <= N <= 50, 50 for N > 50; for N <= 0 or an
\* argument that is not an integer no query is issued.
C25_LimitInRange ==
    (chat.n > 0 /\ chat.parts /= <<>> /\ chat.parts[1] \in {"latest", "LATEST"}) =>
       LET arg == IF Len(chat.parts) > 1 THEN chat.parts[2] ELSE ""
       IN IF arg \in {"0", "-2", "abc"}
          THEN chat.made = <<>>
          ELSE /\ Len(chat.made) = 1
               /\ chat.made[1].what.kind = "latest"
               /\ chat.made[1].what.limit \in 1..50
               /\ chat.made[1].what.limit =
                    CASE arg = "" -> 5
                      [] arg = "1" -> 1
                      [] arg = "50" -> 50
                      [] arg \in {"51", "99"} -> 50

\* latest 51 queried with limit 50.
C25_Witness ==
    /\ chat.n > 0
    /\ chat.parts = <<"latest", "51">>
    /\ Len(chat.made) = 1
    /\ chat.made[1].what.limit = 50

\* ---- C24
\* The groups the direct runner ran.
GroupsRan == {runner.ran[n].group : n \in DOMAIN runner.ran}

\* C24: in a finished run of the direct runner in which every import worked,
\* --crawl4ai alone ran the Crawl4AI tests only, --integration alone the
\* integration tests only, --supabase alone the Supabase tests only, and the
\* exit code is 0 exactly when every group that ran succeeded.
C24_OnlyNamedGroup ==
    (runner.pc = "done" /\ "pytest" \notin runner.args /\ runner.errors = <<>>) =>
       /\ \A g \in {"crawl4ai", "integration", "supabase"} :
             runner.args = {g} => GroupsRan = {g}
       /\ runner.exit = 0 <=> \A n \in DOMAIN runner.ran : runner.ran[n].ok

\* ---- C26
\* C26 as stated: the loop of run() is entered only after a connection test
\* that succeeded, and once entered it ends only on quit or exit, on end of
\* input or on a keyboard interrupt.
C26_EndsOnlyOnQuit ==
    /\ repl.state = "loop" => repl.test = "ok"
    /\ (repl.state = "ended" /\ repl.test = "ok") =>
          repl.why \in {"quit", "EOFError", "KeyboardInterrupt"}

\* C26 amended: the loop is entered only after a connection test that
\* succeeded; it is left on quit or exit, on end of input, on a keyboard
\* interrupt, and also on any other exception that reaches run(), which is
\* printed as an unexpected error; a command that returns True, one whose
\* database query failed included, leaves the loop running, and a command
\* ends it only by returning False.
C26_LoopEnds ==
    [][ /\ repl'.state = "loop" => repl'.test = "ok"
        /\ (repl.state = "loop" /\ repl'.state = "ended") =>
              /\ repl'.why \in {"quit", "EOFError", "KeyboardInterrupt",
                                "Unexpected error"}
              /\ repl'.why = "quit" <=> (chat' /= chat /\ chat'.ret = FALSE)
        /\ (repl.state = "loop" /\ chat' /= chat /\ chat'.ret = TRUE) =>
              repl'.state = "loop"
        /\ repl.state = "ended" => repl' = repl ]_vars

\* A command whose query failed was followed, in the same loop, by a command
\* whose query returned rows.
C26_Witness ==
    /\ repl.state = "loop"
    /\ repl.failed = 1
    /\ chat.n = 2
    /\ chat.made /= <<>> /\ chat.made[1].ok
    /\ chat.rows /= <<>>

\* ---- C27
\* C27: when the storage client is not available nothing is crawled and no
\* storage call is made: the two workflows return False before any crawl,
\* store_page_summary returns None and store_crawl_results returns 0.
C27_NothingWhenUnavailable ==
    ~client =>
       /\ calls = <<>>
       /\ table = <<>>
       /\ fetched = <<>>
       /\ log = <<>>
       /\ stored_count = 0
       /\ pc \in {"idle", "done"}
       /\ pc = "done" =>
            ret = CASE workflow \in {"page", "market"} -> "False"
                    [] workflow = "summary" -> "None"
                    [] workflow = "bulk" -> "returned"

\* The page workflow, called with a url and no storage client, returned False
\* without a crawl.
C27_Witness ==
    /\ ~client
    /\ workflow = "page"
    /\ pc = "done"
    /\ urls /= <<>>
    /\ fetched = <<>>
    /\ ret = "False"

\* ---- C28
\* C28: in crawl_and_store_in_supabase the stored count is, at every step of
\* the store loop, between 0 and the number of results processed so far, at
\* most one write being made per result; the call returns True exactly when
\* at least one result was stored.
C28_CountBounded ==
    workflow = "page" =>
       /\ stored_count = Cardinality({n \in DOMAIN calls : calls[n].ok})
       /\ \A r \in DOMAIN results : Cardinality(CallsOf(results[r].src)) <= 1
       /\ pc = "store" => (0 <= stored_count /\ stored_count <= i - 1)
       /\ pc = "done" =>
            /\ 0 <= stored_count /\ stored_count <= Len(results)
            /\ ret = "True" <=> stored_count > 0
            /\ ret = "False" <=> stored_count = 0

\* Of two results one was stored and the write of the other failed; the call
\* returned True.
C28_Witness ==
    /\ workflow = "page" /\ pc = "done"
    /\ Len(results) = 2
    /\ Len(calls) = 2
    /\ stored_count = 1
    /\ ret = "True"

\* ---- C29
\* C29: without an OpenAI key crawl_with_llm_analysis is the plain crawl, whose
\* results are those of the urls fetched successfully and carry no analysis;
\* crawl_prediction_markets_with_llm returns an empty list without a crawl;
\* the page workflow then makes no storage call, stores nothing and returns
\* False, whatever was crawled.
C29_NoKeyStoresNothing ==
    ~openai =>
       /\ calls = <<>>
       /\ table = <<>>
       /\ stored_count = 0
       /\ pc = "done" => ret = "False"
       /\ workflow = "market" => (fetched = <<>> /\ results = <<>>)
       /\ (workflow = "page" /\ pc \in {"store", "done"}) =>
            /\ \A k \in DOMAIN fetched : fetched[k].extracted.state = "none"
            /\ Len(results) = Cardinality({k \in DOMAIN fetched : fetched[k].success})
            /\ \A r \in DOMAIN results :
                  /\ results[r].shape = "basic"
                  /\ fetched[results[r].src].success
                  /\ ~Truthy(GetAnalysis(results[r]))

\* With storage available and no OpenAI key two urls were crawled
\* successfully, and the page workflow returned False.
C29_Witness ==
    /\ ~openai /\ client
    /\ workflow = "page" /\ pc = "done"
    /\ Len(urls) = 2
    /\ AllCrawled
    /\ Len(results) = 2
    /\ \A n \in DOMAIN log : log[n].kind = "no_analysis"
    /\ Len(log) = 2
    /\ ret = "False"

====
